---- MODULE Spec2Model ----
(***************************************************************************)
(* A model of rbwasm's build orchestrator (src/src/lib.rs, src/src/main.rs, *)
(* src/src/toolchain.rs): the content-addressed build cache, the source     *)
(* resolver, the native build driver with its child processes, the          *)
(* path-mapping synthesizer and the pipeline of main.                       *)
(*                                                                          *)
(* Strings that are hashed are sequences of bytes; paths are sequences of   *)
(* components.  A child process is a record in the set `children` from the   *)
(* moment it is spawned until it exits.                                     *)
(***************************************************************************)
EXTENDS Integers, Sequences, FiniteSets, TLC

VARIABLES
    fs,          \* the workspace on disk: existing directory |-> what it holds
    env,         \* the process environment: TRANSIENT_HEAP_TOTAL_SIZE, as <<>> or <<v>>
    save_temps,  \* Workspace.save_temps
    pc,          \* where build_cruby stands ("idle": no call in progress)
    call,        \* <<>> or <<the arguments of the build_cruby call in progress>>
    log,         \* the children the call in progress has started, with exit status
    children,    \* the child processes that are running
    last,        \* <<>> or <<the last build_cruby call that returned, with its result>>
    ncalls,      \* build_cruby calls started so far
    ntemp,       \* temporary directories created so far
    arg,         \* the arguments of the function under check (<<>>: none)
    ret,         \* <<>> or <<what the function returned for arg>>
    opt,         \* main: the command line options
    mpc,         \* main: the stage to run next, "done" or "failed"
    mlog,        \* main: the stages started so far, each with its outcome
    map_paths,   \* main: the mapping list
    raw_objects, \* main: the auxiliary objects handed to the linker
    image,       \* main: <<>> or <<the mapping list mkfs handed to the image generator>>
    cmds,        \* main: the linker and wasm-opt invocations so far
    tempfile_owner,     \* Workspace.tempfile_owner: the temporary files the workspace owns
    workspace_dropped,  \* main has returned and its Workspace was dropped
    PATH         \* the PATH of the orchestrator's own environment: <<>> (unset) or <<entries>>

buildVars == <<fs, env, save_temps, pc, call, log, children, last, ncalls, ntemp>>
pureVars == <<arg, ret>>
toolVars == <<image, cmds, tempfile_owner, workspace_dropped, PATH>>
mainVars == <<opt, mpc, mlog, map_paths, raw_objects, toolVars>>
vars == <<buildVars, pureVars, mainVars>>

----------------------------------------------------------------------------
(* Bounds of the model *)

\* build_cruby calls in one behaviour
MaxCalls == 2

----------------------------------------------------------------------------
(* Byte strings *)

S_a == <<97>>
S_b == <<98>>
S_ab == <<97, 98>>

RECURSIVE Concat(_)
\* the concatenation of a sequence of sequences
Concat(ss) == IF ss = <<>> THEN <<>> ELSE Head(ss) \o Concat(Tail(ss))

----------------------------------------------------------------------------
(* #[derive(Hash)] of BuildSource and CRubyBuildInput: the bytes fed to the *)
(* hasher, field by field in declaration order.                             *)

RECURSIVE LeBytes(_, _)
\* the w low bytes of n, least significant first (to_le_bytes)
LeBytes(n, w) == IF w = 0 THEN <<>> ELSE <<n % 256>> \o LeBytes(n \div 256, w - 1)

\* Hasher::write_usize / write_isize on a 64-bit target
WriteUsize(n) == LeBytes(n, 8)

\* impl Hash for str: the bytes, then 0xff
HashStr(s) == s \o <<255>>

\* impl Hash for [T]: the length, then every element
HashStrSlice(xs) == WriteUsize(Len(xs)) \o Concat([i \in 1..Len(xs) |-> HashStr(xs[i])])

\* impl Hash for Path (a PathBuf holding one normal component)
HashPath(p) == WriteUsize(Len(p)) \o p

GitHub(owner, repo, git_ref) ==
    [kind |-> "GitHub", owner |-> owner, repo |-> repo, git_ref |-> git_ref, path |-> <<>>]
Dir(path) ==
    [kind |-> "Dir", owner |-> <<>>, repo |-> <<>>, git_ref |-> <<>>, path |-> path]

\* #[derive(Hash)] enum BuildSource: the discriminant, then the variant's fields
HashBuildSource(source) ==
    IF source.kind = "GitHub"
    THEN WriteUsize(0) \o HashStr(source.owner) \o HashStr(source.repo)
             \o HashStr(source.git_ref)
    ELSE WriteUsize(1) \o HashPath(source.path)

CRubyBuildInput(source, asyncify_stack_size, extra_cc_args, enabled_extentions) ==
    [source |-> source, asyncify_stack_size |-> asyncify_stack_size,
     extra_cc_args |-> extra_cc_args, enabled_extentions |-> enabled_extentions]

\* the derived hash of a CRubyBuildInput that has no extra_cc_args field
HashCRubyBuildInput_NoExtraArgs(input) ==
    HashBuildSource(input.source) \o WriteUsize(input.asyncify_stack_size)
        \o HashStrSlice(input.enabled_extentions)

\* #[derive(Hash)] struct CRubyBuildInput
HashCRubyBuildInput(input) ==
    HashBuildSource(input.source) \o WriteUsize(input.asyncify_stack_size)
        \o HashStrSlice(input.extra_cc_args) \o HashStrSlice(input.enabled_extentions)

----------------------------------------------------------------------------
(* Workspace *)

WorkspaceDir == "ws"
build_dir == <<WorkspaceDir, "build">>
downloads_dir == <<WorkspaceDir, "downloads">>
cache_dir == <<WorkspaceDir, "cache">>
temporary_dir == <<WorkspaceDir, "tmp">>

\* Workspace::hashed_dirs.  The 64-bit SipHash-1-3 digest and its hex text are
\* represented by the bytes the hasher was fed: the digest is taken to be free of
\* collisions on the inputs of the model.
hashed_dirs(input, name) ==
    LET hashed == <<name, HashCRubyBuildInput(input)>>
    IN  [build_dir |-> Append(build_dir, hashed),
         install_dir |-> Append(cache_dir, hashed)]

\* the directory tempfile::tempdir_in(temporary_dir) creates: a fresh name
TempDir(n) == Append(temporary_dir, <<"tmp", <<n>>>>)

----------------------------------------------------------------------------
(* Values of the build model *)

GUEST_RUBY_ROOT == "/embd-root/ruby"

\* anyhow::Result<BuildResult>
Ok(install_dir, cached) ==
    [ok |-> TRUE, install_dir |-> install_dir, cached |-> cached,
     prefix |-> GUEST_RUBY_ROOT, context |-> "", cause |-> ""]
Err(context, cause) ==
    [ok |-> FALSE, install_dir |-> <<>>, cached |-> FALSE,
     prefix |-> "", context |-> context, cause |-> cause]

\* the inputs build_cruby is called with: a remote source, the same source with
\* one more extension, and a local directory
BuildInputs ==
    { CRubyBuildInput(GitHub(S_a, S_b, S_ab), 0, <<>>, <<>>),
      CRubyBuildInput(Dir(S_a), 0, <<>>, <<>>) }

\* Toolchain.wasi_sdk
WasiSdks == {"sdk14", "sdk15"}

\* values of the environment variable TRANSIENT_HEAP_TOTAL_SIZE: unset, or set
HeapSizes == {<<>>, <<"1024">>}

\* values of the environment variable PATH: unset, or a list of directories
PathValues == {<<>>, << << <<"/", "bin">>, <<"/", "usr", "local", "bin">> >> >>}

\* std::process::ExitStatus::success()
ExitStatuses == {"success", "failure"}

\* a child process: its command, its working directory, what it is fed on
\* stdin, the stub directory made for it (<<>>: none) and the PATH of its
\* environment
Child(cmd, cwd, input, stub, path) ==
    [cmd |-> cmd, cwd |-> cwd, input |-> input, stub |-> stub, path |-> path]

\* new_path with the stub directory after the entries of PATH
new_path_Appended(fake_path) ==
    IF PATH # <<>> THEN <<Append(PATH[1], fake_path)>> ELSE << <<fake_path>> >>

\* build_cruby, new_path: fake_path inserted at 0 in split_paths(PATH), or
\* fake_path alone when PATH is not set
new_path(fake_path) ==
    IF PATH # <<>> THEN << <<fake_path>> \o PATH[1] >> ELSE << <<fake_path>> >>

\* what a directory of the workspace holds
BuildDirEntry(src, conf) == [kind |-> "build", src |-> src, conf |-> conf]
InstallDirEntry(state, builtWith) ==
    [kind |-> "install", state |-> state, builtWith |-> builtWith]
StubDirEntry == [kind |-> "stub", cmd |-> "wasm-opt"]

Exists(path) == path \in DOMAIN fs

\* fs with path |-> entry added or replaced
Put(f, path, entry) ==
    [p \in DOMAIN f \cup {path} |-> IF p = path THEN entry ELSE f[p]]
Remove(f, path) == [p \in DOMAIN f \ {path} |-> f[p]]

\* std::fs::create_dir_all
create_dir_all(f, path) ==
    IF path \in DOMAIN f THEN f ELSE Put(f, path, BuildDirEntry("empty", <<>>))

\* the call in progress
Input == call[1].input
Toolchain == call[1].toolchain
Dirs == hashed_dirs(Input, "ruby")

\* build_cruby returns res; l is what it started
Return(res, l) ==
    /\ last' = <<[input |-> Input, toolchain |-> Toolchain, heap |-> env,
                  res |-> res, log |-> l]>>
    /\ pc' = "idle"
    /\ call' = <<>>
    /\ log' = <<>>

Started(l, cmd) == Append(l, [cmd |-> cmd, status |-> "running"])
Exited(l, status) == [l EXCEPT ![Len(l)].status = status]

IsRunning(cmd) == \E c \in children : c.cmd = cmd

----------------------------------------------------------------------------
(* install_build_src, configure_cruby, build_cruby *)

\* ConfigureArgs without --with-destdir: make install lands under /
ConfigureArgs_NoDestdir(toolchain, install_dir, prefix, stack_size, exts, extra_cc_args, heap) ==
    [prefix |-> prefix,
     destdir |-> <<"/">>,
     with_ext |-> exts,
     frame_buffer_size |-> stack_size,
     extra_cc_args |-> extra_cc_args,
     transient_heap |-> heap,
     wasi_sdk |-> toolchain.wasi_sdk]

\* The command line of ./configure: --prefix, --with-destdir, --with-ext, the
\* CFLAGS (frame buffer size, extra arguments, TRANSIENT_HEAP_TOTAL_SIZE when
\* the variable is set) and the tools of the wasi-sdk.
ConfigureArgs(toolchain, install_dir, prefix, stack_size, exts, extra_cc_args, heap) ==
    [prefix |-> prefix,
     destdir |-> install_dir,
     with_ext |-> exts,
     frame_buffer_size |-> stack_size,
     extra_cc_args |-> extra_cc_args,
     transient_heap |-> heap,
     wasi_sdk |-> toolchain.wasi_sdk]

\* a directory outside the workspace, named by a BuildSource::Dir
LocalDir(path) == <<"dir", path>>

\* src_dir: what install_build_src returned to the call in progress
SrcDir == call[1].src_dir

\* whether src_dir may hold an executable autogen.sh / configure: a local
\* directory is not the workspace's, a fetched one holds what tar wrote so far
MayHoldScripts ==
    IF SrcDir = LocalDir(Input.source.path) THEN TRUE ELSE fs[SrcDir].src # "empty"

\* Call with the cache check on the build directory
Call_HitOnBuildDir(input, toolchain) ==
    /\ pc = "idle"
    /\ ncalls < MaxCalls
    /\ ncalls' = ncalls + 1
    /\ LET d == hashed_dirs(input, "ruby")
       IN  IF Exists(d.build_dir)
           THEN /\ last' = <<[input |-> input, toolchain |-> toolchain, heap |-> env,
                             res |-> Ok(d.install_dir, TRUE), log |-> <<>>]>>
                /\ UNCHANGED <<pc, call, log>>
           ELSE /\ call' = <<[input |-> input, toolchain |-> toolchain, src_dir |-> <<>>]>>
                /\ pc' = "install_build_src"
                /\ log' = <<>>
                /\ UNCHANGED last
    /\ UNCHANGED <<fs, env, save_temps, children, ntemp, pureVars, mainVars>>

\* build_cruby, up to the cache check: a hit returns at once
Call(input, toolchain) ==
    /\ pc = "idle"
    /\ ncalls < MaxCalls
    /\ ncalls' = ncalls + 1
    /\ LET d == hashed_dirs(input, "ruby")
       IN  IF Exists(d.install_dir)
           THEN /\ last' = <<[input |-> input, toolchain |-> toolchain, heap |-> env,
                             res |-> Ok(d.install_dir, TRUE), log |-> <<>>]>>
                /\ UNCHANGED <<pc, call, log>>
           ELSE /\ call' = <<[input |-> input, toolchain |-> toolchain, src_dir |-> <<>>]>>
                /\ pc' = "install_build_src"
                /\ log' = <<>>
                /\ UNCHANGED last
    /\ UNCHANGED <<fs, env, save_temps, children, ntemp>>
    /\ UNCHANGED <<pureVars, mainVars>>

\* install_build_src returns Ok(src_dir)
Resolved(src_dir) ==
    /\ call' = <<[call[1] EXCEPT !.src_dir = src_dir]>>
    /\ pc' = "autogen"
    /\ UNCHANGED last

\* BuildSource::Dir with a copy of the directory into build_dir
ResolveDir_Copy ==
    /\ fs' = Put(fs, Dirs.build_dir, BuildDirEntry("full", <<>>))
    /\ Resolved(Dirs.build_dir)
    /\ UNCHANGED <<children, log>>

\* install_build_src, BuildSource::Dir { path } => return Ok(path)
ResolveDir ==
    /\ Resolved(LocalDir(Input.source.path))
    /\ UNCHANGED <<fs, children, log>>

\* BuildSource::GitHub with the directory emptied before it is returned
ResolveExisting_Cleared ==
    /\ fs' = Put(fs, Dirs.build_dir, BuildDirEntry("empty", <<>>))
    /\ Resolved(Dirs.build_dir)
    /\ UNCHANGED <<children, log>>

\* install_build_src, BuildSource::GitHub: if build_dir.exists() { return Ok(build_dir) }
ResolveExisting ==
    /\ Resolved(Dirs.build_dir)
    /\ UNCHANGED <<fs, children, log>>

\* install_build_src, BuildSource::GitHub: create the directory, request the
\* archive, spawn tar and copy the response to its stdin
Fetch ==
    \E outcome \in {"create_dir", "send", "error_for_status", "spawn", "copy", "ok"} :
       CASE outcome = "create_dir" ->
              /\ Return(Err("", "create_dir_all"), log)
              /\ UNCHANGED <<fs, children>>
         [] outcome \in {"send", "error_for_status", "spawn"} ->
              /\ fs' = create_dir_all(fs, Dirs.build_dir)
              /\ Return(Err("", outcome), log)
              /\ UNCHANGED children
         [] outcome = "copy" ->
              /\ fs' = Put(fs, Dirs.build_dir, BuildDirEntry("partial", <<>>))
              /\ children' = children \cup {Child("tar", Dirs.build_dir, "cut", <<>>, PATH)}
              /\ Return(Err("", "copy"), Started(log, "tar"))
         [] OTHER ->
              /\ fs' = Put(fs, Dirs.build_dir, BuildDirEntry("partial", <<>>))
              /\ children' = children \cup {Child("tar", Dirs.build_dir, "whole", <<>>, PATH)}
              /\ log' = Started(log, "tar")
              /\ Resolved(Dirs.build_dir)

\* install_build_src
InstallBuildSrc ==
    /\ pc = "install_build_src"
    /\ IF Input.source.kind = "Dir" THEN ResolveDir
       ELSE IF Exists(Dirs.build_dir) THEN ResolveExisting
       ELSE Fetch
    /\ UNCHANGED <<env, save_temps, ncalls, ntemp>>
    /\ UNCHANGED <<pureVars, mainVars>>

\* the log with the exit status of the tar child that ran in cwd, if this log
\* is of the call that spawned it
TarExited(l, input, cwd, status) ==
    IF l # <<>> /\ l[1].cmd = "tar" /\ hashed_dirs(input, "ruby").build_dir = cwd
    THEN [l EXCEPT ![1].status = status]
    ELSE l

\* the tar child exits: it wrote everything only if it got the whole archive.
\* Nobody waits for it; its status is kept in the log of its call for reference.
TarExit(c, status) ==
    /\ c \in children
    /\ c.cmd = "tar"
    /\ status = "success" => c.input = "whole"
    /\ children' = children \ {c}
    /\ fs' = IF status = "success" /\ Exists(c.cwd)
             THEN Put(fs, c.cwd, BuildDirEntry("full", fs[c.cwd].conf))
             ELSE fs
    /\ log' = IF pc = "idle" THEN log ELSE TarExited(log, Input, c.cwd, status)
    /\ last' = IF last = <<>> THEN last
               ELSE <<[last[1] EXCEPT !.log = TarExited(@, last[1].input, c.cwd, status)]>>
    /\ UNCHANGED <<env, save_temps, pc, call, ncalls, ntemp>>
    /\ UNCHANGED <<pureVars, mainVars>>

\* build_cruby: autogen_sh.status(), the spawn
AutogenStart ==
    /\ pc = "autogen"
    /\ \/ /\ Return(Err("failed to spawn autogen.sh", "spawn"), log)
          /\ UNCHANGED children
       \/ /\ MayHoldScripts
          /\ children' = children \cup {Child("autogen", SrcDir, "", <<>>, PATH)}
          /\ log' = Started(log, "autogen")
          /\ pc' = "autogen_wait"
          /\ UNCHANGED <<call, last>>
    /\ UNCHANGED <<fs, env, save_temps, ncalls, ntemp>>
    /\ UNCHANGED <<pureVars, mainVars>>

\* AutogenExit without the check of status.success()
AutogenExit_Unchecked(status) ==
    /\ pc = "autogen_wait"
    /\ children' = {c \in children : c.cmd # "autogen"}
    /\ log' = Exited(log, status)
    /\ pc' = "configure"
    /\ UNCHANGED <<call, last, fs, env, save_temps, ncalls, ntemp, pureVars, mainVars>>

\* build_cruby: autogen_sh.status(), the child's exit
AutogenExit(status) ==
    /\ pc = "autogen_wait"
    /\ children' = {c \in children : c.cmd # "autogen"}
    /\ IF status = "success"
       THEN /\ log' = Exited(log, status)
            /\ pc' = "configure"
            /\ UNCHANGED <<call, last>>
       ELSE Return(Err("", "autogen.sh failed"), Exited(log, status))
    /\ UNCHANGED <<fs, env, save_temps, ncalls, ntemp>>
    /\ UNCHANGED <<pureVars, mainVars>>

\* configure_cruby up to configure_cmd.status(), the spawn
ConfigureStart ==
    /\ pc = "configure"
    /\ \/ /\ Return(Err("configuration failed", "failed to create build dir"), log)
          /\ UNCHANGED <<fs, children>>
       \/ /\ fs' = create_dir_all(fs, Dirs.build_dir)
          /\ \E cause \in {"canonicalize", "failed to spawn configure"} :
                Return(Err("configuration failed", cause), log)
          /\ UNCHANGED children
       \/ /\ MayHoldScripts
          /\ fs' = create_dir_all(fs, Dirs.build_dir)
          /\ children' = children \cup {Child("configure", Dirs.build_dir, "", <<>>, PATH)}
          /\ log' = Started(log, "configure")
          /\ pc' = "configure_wait"
          /\ UNCHANGED <<call, last>>
    /\ UNCHANGED <<env, save_temps, ncalls, ntemp>>
    /\ UNCHANGED <<pureVars, mainVars>>

\* ConfigureExit without the check of status.success()
ConfigureExit_Unchecked(status) ==
    /\ pc = "configure_wait"
    /\ children' = {c \in children : c.cmd # "configure"}
    /\ fs' = Put(fs, Dirs.build_dir,
                 BuildDirEntry(fs[Dirs.build_dir].src,
                     <<ConfigureArgs(Toolchain, Dirs.install_dir, GUEST_RUBY_ROOT,
                                     Input.asyncify_stack_size, Input.enabled_extentions,
                                     Input.extra_cc_args, env)>>))
    /\ log' = Exited(log, status)
    /\ pc' = "make"
    /\ UNCHANGED <<call, last, env, save_temps, ncalls, ntemp, pureVars, mainVars>>

\* configure_cruby: configure_cmd.status(), the child's exit.  A configure that
\* succeeds leaves its command line in the build directory (the Makefile).
ConfigureExit(status) ==
    /\ pc = "configure_wait"
    /\ children' = {c \in children : c.cmd # "configure"}
    /\ IF status = "success"
       THEN /\ fs' = Put(fs, Dirs.build_dir,
                        BuildDirEntry(fs[Dirs.build_dir].src,
                            <<ConfigureArgs(Toolchain, Dirs.install_dir, GUEST_RUBY_ROOT,
                                            Input.asyncify_stack_size,
                                            Input.enabled_extentions,
                                            Input.extra_cc_args, env)>>))
            /\ log' = Exited(log, status)
            /\ pc' = "make"
            /\ UNCHANGED <<call, last>>
       ELSE /\ Return(Err("configuration failed", "configuration of cruby failed"),
                      Exited(log, status))
            /\ UNCHANGED fs
    /\ UNCHANGED <<env, save_temps, ncalls, ntemp>>
    /\ UNCHANGED <<pureVars, mainVars>>

\* Workspace::with_overriding_command("wasm-opt", ..) up to make.status(), the spawn
MakeStart ==
    /\ pc = "make"
    /\ \/ \* tempdir_in, File::create, which("true") or chmod fails: the stub
          \* directory, if made, is dropped
          /\ Return(Err("", "with_overriding_command"), log)
          /\ UNCHANGED <<fs, children, ntemp>>
       \/ \* join_paths or the spawn fails inside the closure
          /\ \E cause \in {"failed to join PATH", "failed to spawn make"} :
                Return(Err("", cause), log)
          /\ ntemp' = ntemp + 1
          /\ fs' = IF save_temps THEN Put(fs, TempDir(ntemp), StubDirEntry) ELSE fs
          /\ UNCHANGED children
       \/ /\ ntemp' = ntemp + 1
          /\ fs' = Put(fs, TempDir(ntemp), StubDirEntry)
          /\ children' = children \cup {Child("make", Dirs.build_dir, "", TempDir(ntemp),
                                             new_path(TempDir(ntemp)))}
          /\ log' = Started(log, "make")
          /\ pc' = "make_wait"
          /\ UNCHANGED <<call, last>>
    /\ UNCHANGED <<env, save_temps, ncalls>>
    /\ UNCHANGED <<pureVars, mainVars>>

\* what make install leaves at the destdir of the configured build: all of the
\* artifact when it succeeds, nothing or a part of it when it fails
Installed(f, conf, status, partial) ==
    IF status = "success"
    THEN Put(f, conf.destdir, InstallDirEntry("complete", conf))
    ELSE IF partial
    THEN Put(f, conf.destdir, InstallDirEntry("partial", conf))
    ELSE f

\* a drop of the stub directory that takes the directory it was made in with it
DropStub_WithParent(f, dir) ==
    IF save_temps THEN f ELSE Remove(Remove(f, dir), temporary_dir)

\* with_overriding_command after the closure: the stub directory is dropped
\* unless save_temps
DropStub(f, dir) == IF save_temps THEN f ELSE Remove(f, dir)

\* build_cruby: make.status(), the child's exit, to the end of build_cruby
MakeExit(status, partial) ==
    /\ pc = "make_wait"
    /\ \E c \in children :
          /\ c.cmd = "make"
          /\ children' = children \ {c}
          /\ fs' = DropStub(Installed(fs, fs[c.cwd].conf[1], status, partial), c.stub)
    /\ IF status = "success"
       THEN Return(Ok(Dirs.install_dir, FALSE), Exited(log, status))
       ELSE Return(Err("", "make of cruby failed"), Exited(log, status))
    /\ UNCHANGED <<env, save_temps, ncalls, ntemp>>
    /\ UNCHANGED <<pureVars, mainVars>>

\* the caller changes TRANSIENT_HEAP_TOTAL_SIZE between two calls
SetEnv(v) ==
    /\ pc = "idle"
    /\ ncalls < MaxCalls
    /\ v # env
    /\ env' = v
    /\ UNCHANGED <<fs, save_temps, pc, call, log, children, last, ncalls, ntemp>>
    /\ UNCHANGED <<pureVars, mainVars>>

\* Workspace::create on an empty directory
WorkspaceCreated ==
    /\ fs = [p \in {build_dir, downloads_dir, cache_dir, temporary_dir} |->
                [kind |-> "workspace"]]
    /\ pc = "idle"
    /\ call = <<>>
    /\ log = <<>>
    /\ children = {}
    /\ last = <<>>
    /\ ncalls = 0
    /\ ntemp = 0

\* no function under check
NoCall == arg = <<>> /\ ret = <<>>

\* main not started
NoMain ==
    /\ opt = <<>>
    /\ mpc = "none"
    /\ mlog = <<>>
    /\ map_paths = <<>>
    /\ raw_objects = <<>>
    /\ image = <<>>
    /\ cmds = <<>>
    /\ tempfile_owner = <<>>
    /\ workspace_dropped = FALSE

Init ==
    /\ WorkspaceCreated
    /\ env \in HeapSizes
    /\ save_temps \in BOOLEAN
    /\ NoCall
    /\ NoMain
    /\ PATH \in PathValues

Next ==
    \/ \E input \in BuildInputs, sdk \in WasiSdks : Call(input, [wasi_sdk |-> sdk])
    \/ InstallBuildSrc
    \/ \E c \in children, status \in ExitStatuses : TarExit(c, status)
    \/ AutogenStart
    \/ \E status \in ExitStatuses : AutogenExit(status)
    \/ ConfigureStart
    \/ \E status \in ExitStatuses : ConfigureExit(status)
    \/ MakeStart
    \/ \E status \in ExitStatuses, partial \in BOOLEAN : MakeExit(status, partial)
    \/ \E v \in HeapSizes : SetEnv(v)

Spec == Init /\ [][Next]_vars

----------------------------------------------------------------------------
(* Properties of the build cache and of the native build driver *)

\* the build steps a call started, without the extraction of the sources
BuildSteps(l) == SelectSeq(l, LAMBDA e : e.cmd # "tar")

\* the log of a call names autogen, configure, make install in this order, and
\* every step but the last one exited with success
InOrder(l) ==
    LET b == BuildSteps(l)
        order == <<"autogen", "configure", "make">>
    IN  /\ Len(b) <= 3
        /\ \A i \in 1..Len(b) : b[i].cmd = order[i]
        /\ \A i \in 1..(Len(b) - 1) : b[i].status = "success"

\* the input of the call the step starts
C1_NewInput == IF pc' = "idle" THEN last'[1].input ELSE call'[1].input

\* C1 (cache idempotence): when a build_cruby call has returned cached = false,
\* the next call with the same input returns cached = true at once: it starts
\* no child process and changes nothing on disk.
C1_CacheIdempotence ==
    [][ ( /\ pc = "idle"
          /\ last # <<>>
          /\ last[1].res.ok
          /\ ~last[1].res.cached
          /\ ncalls' = ncalls + 1
          /\ C1_NewInput = last[1].input )
        => ( /\ pc' = "idle"
             /\ last'[1].res.ok
             /\ last'[1].res.cached
             /\ last'[1].res.install_dir = last[1].res.install_dir
             /\ last'[1].log = <<>>
             /\ children' = children
             /\ fs' = fs ) ]_vars

\* a second call has hit the cache that the first call filled
C1_Witness ==
    /\ ncalls = 2
    /\ pc = "idle"
    /\ last # <<>>
    /\ last[1].res.ok
    /\ last[1].res.cached
    /\ last[1].log = <<>>
    /\ fs[last[1].res.install_dir].state = "complete"

\* C2 (cache completeness): a call that returns cached = true returns an
\* artifact that was configured with the values this call would configure
\* with: input, toolchain path and TRANSIENT_HEAP_TOTAL_SIZE.
C2_CacheCompleteness ==
    ( /\ pc = "idle"
      /\ last # <<>>
      /\ last[1].res.ok
      /\ last[1].res.cached
      /\ fs[last[1].res.install_dir].state = "complete" )
    => fs[last[1].res.install_dir].builtWith
         = ConfigureArgs(last[1].toolchain, last[1].res.install_dir, GUEST_RUBY_ROOT,
                         last[1].input.asyncify_stack_size,
                         last[1].input.enabled_extentions,
                         last[1].input.extra_cc_args, last[1].heap)

\* C4 (failure propagation): a call whose configure exited non-zero has not
\* started make install and has returned the error of the configuration stage.
C4_ConfigureFailureStops ==
    /\ \A i \in 1..Len(log) :
          (log[i].cmd = "configure" /\ log[i].status = "failure") =>
              /\ ~ \E j \in 1..Len(log) : log[j].cmd = "make"
              /\ ~ IsRunning("make")
    /\ last # <<>> =>
          \A i \in 1..Len(last[1].log) :
             (last[1].log[i].cmd = "configure" /\ last[1].log[i].status = "failure") =>
                 /\ ~ \E j \in 1..Len(last[1].log) : last[1].log[j].cmd = "make"
                 /\ ~ last[1].res.ok
                 /\ last[1].res.context = "configuration failed"
                 /\ pc = "idle" => ~ IsRunning("make")

\* a call has returned after its configure exited non-zero
C4_Witness ==
    /\ last # <<>>
    /\ \E i \in 1..Len(last[1].log) :
          last[1].log[i].cmd = "configure" /\ last[1].log[i].status = "failure"

\* C5 (stage order): a call starts autogen, configure and make install in this
\* order, each only after the one before exited with success, and it returns
\* a BuildResult with cached = false only when all three exited with success.
C5_StageOrder ==
    /\ InOrder(log)
    /\ last # <<>> =>
          /\ InOrder(last[1].log)
          /\ (last[1].res.ok /\ ~last[1].res.cached) =>
                /\ Len(BuildSteps(last[1].log)) = 3
                /\ \A i \in 1..3 : BuildSteps(last[1].log)[i].status = "success"

\* a call has built and installed, and the next one is past its autogen
C5_Witness ==
    /\ last # <<>>
    /\ last[1].res.ok
    /\ ~last[1].res.cached
    /\ Len(log) >= 2

\* C6 (no directory left behind): after a fetch of a remote source has failed
\* the target directory does not exist, and the "directory exists" path is
\* never taken on a directory that does not hold the whole source.
C6_FailedFetchLeavesNoDir ==
    /\ ( /\ pc = "idle"
         /\ last # <<>>
         /\ ~last[1].res.ok
         /\ last[1].res.cause \in {"send", "error_for_status", "copy"} )
       => ~ Exists(hashed_dirs(last[1].input, "ruby").build_dir)
    /\ ( /\ pc = "install_build_src"
         /\ Input.source.kind = "GitHub"
         /\ Exists(Dirs.build_dir) )
       => fs[Dirs.build_dir].src = "full"

\* C7 (blocking): no child process outlives the call that started it, and
\* autogen is not started while tar is still extracting the source.
C7_ChildrenExitedOnReturn ==
    /\ pc = "idle" => children = {}
    /\ IsRunning("autogen") => ~IsRunning("tar")

\* where build_cruby stands before it reaches make install
C11_BeforeInstall == {"install_build_src", "autogen", "autogen_wait", "configure", "configure_wait"}

\* the errors build_cruby returns before it reaches make install
C11_StoppedBeforeInstall(res) ==
    /\ ~res.ok
    /\ res.cause \notin {"with_overriding_command", "failed to join PATH",
                         "failed to spawn make", "make of cruby failed"}

\* C11 (half-finished build): up to make install a call creates or changes
\* nothing on disk but build directories, and when a call has stopped before
\* make install the next call with the same input is not a cache hit: it goes
\* on to resolve the source.
C11_NoHitOnBuildDirAlone ==
    [][ /\ pc \in C11_BeforeInstall =>
              \A p \in DOMAIN fs \cup DOMAIN fs' :
                 \/ p \in DOMAIN fs /\ p \in DOMAIN fs' /\ fs'[p] = fs[p]
                 \/ SubSeq(p, 1, 2) = build_dir
        /\ ( /\ pc = "idle"
             /\ last # <<>>
             /\ C11_StoppedBeforeInstall(last[1].res)
             /\ ncalls' = ncalls + 1
             /\ C1_NewInput = last[1].input )
           => ( /\ pc' = "install_build_src"
                /\ last' = last
                /\ ~Exists(hashed_dirs(last[1].input, "ruby").install_dir) ) ]_vars

\* a call stopped at configure and left its build directory, and the next call
\* with the same input is building again
C11_Witness ==
    /\ last # <<>>
    /\ C11_StoppedBeforeInstall(last[1].res)
    /\ last[1].res.context = "configuration failed"
    /\ pc = "install_build_src"
    /\ Input = last[1].input
    /\ Exists(Dirs.build_dir)

\* the step is install_build_src returning or failing
C13_ResolveStep == pc = "install_build_src" /\ pc' # "install_build_src"

\* C13 (local-source passthrough): install_build_src on a Dir { path } source
\* returns that path, starts no child process and changes nothing on disk.
C13_LocalPassthrough ==
    [][ (C13_ResolveStep /\ Input.source.kind = "Dir")
        => ( /\ pc' = "autogen"
             /\ call'[1].src_dir = LocalDir(Input.source.path)
             /\ call'[1].src_dir # Dirs.build_dir
             /\ fs' = fs
             /\ children' = children
             /\ log' = log ) ]_vars

\* a local source was resolved and its build directory does not exist
C13_Witness ==
    /\ pc = "autogen"
    /\ Input.source.kind = "Dir"
    /\ SrcDir = LocalDir(Input.source.path)
    /\ ~Exists(Dirs.build_dir)
    /\ log = <<>>

\* C14 (remote-source idempotence): install_build_src on a GitHub source whose
\* build directory exists returns that directory, starts no child process and
\* changes nothing on disk; and a build directory, once there, stays.
C14_RemoteIdempotence ==
    [][ /\ (C13_ResolveStep /\ Input.source.kind = "GitHub" /\ Exists(Dirs.build_dir))
           => ( /\ pc' = "autogen"
                /\ call'[1].src_dir = Dirs.build_dir
                /\ fs' = fs
                /\ children' = children
                /\ log' = log )
        /\ \A p \in DOMAIN fs : SubSeq(p, 1, 2) = build_dir => p \in DOMAIN fs' ]_vars

\* the second call resolved the source the first call fetched, without a tar
C14_Witness ==
    /\ ncalls = 2
    /\ pc = "autogen"
    /\ Input.source.kind = "GitHub"
    /\ SrcDir = Dirs.build_dir
    /\ log = <<>>
    /\ last[1].log # <<>>
    /\ last[1].log[1].cmd = "tar"
    /\ fs[Dirs.build_dir].src = "full"

\* the tar child of the call in progress has exited non-zero
C15_TarFailed == log # <<>> /\ log[1].cmd = "tar" /\ log[1].status = "failure"

\* C15 (extraction failure): when the tar child of a call has exited non-zero
\* before autogen.sh is started, the call does not start autogen.sh and returns
\* an error.
C15_TarFailureStops ==
    [][ (pc = "autogen" /\ C15_TarFailed)
        => ( /\ pc' \in {"autogen", "idle"}
             /\ \A i \in 1..Len(log') : log'[i].cmd # "autogen"
             /\ pc' = "idle" => ~last'[1].res.ok ) ]_vars

\* C19 (shadowing scope): the make install child, and no other child, has the
\* stub directory in its PATH: in front of the entries of the orchestrator's
\* PATH in their order, or alone when PATH is not set; the linker and wasm-opt
\* are run with the orchestrator's PATH, and no step changes that PATH.
C19_ShadowingScope ==
    /\ [](/\ \A c \in children :
               IF c.cmd = "make"
               THEN /\ c.stub # <<>>
                    /\ Exists(c.stub)
                    /\ fs[c.stub] = StubDirEntry
                    /\ c.path # <<>>
                    /\ c.path[1][1] = c.stub
                    /\ Tail(c.path[1]) = (IF PATH = <<>> THEN <<>> ELSE PATH[1])
               ELSE /\ c.stub = <<>>
                    /\ c.path = PATH
          /\ \A i \in 1..Len(cmds) : cmds[i].path = PATH)
    /\ [][PATH' = PATH]_vars

\* make install runs with the stub directory in front of a PATH of two entries,
\* after autogen and configure ran without it
C19_Witness ==
    /\ PATH # <<>>
    /\ Len(log) >= 2
    /\ \E c \in children :
          /\ c.cmd = "make"
          /\ Len(c.path[1]) = 3
          /\ c.path[1][1] = c.stub

----------------------------------------------------------------------------
(* Workspace::hashed_dirs on pairs of inputs that differ in one field *)

\* longest list of extra compiler flags and of extensions
MaxArgs == 2

S_aa == <<97, 97>>

\* every sequence over S of length at most n
SeqsUpTo(S, n) == UNION {[1..k -> S] : k \in 0..n}

StrLists == SeqsUpTo({S_a, S_aa}, MaxArgs)

\* --asyncify-stack-size values
StackSizes == {0, 1, 256}

HashInputs ==
    { CRubyBuildInput(source, n, flags, exts) :
        source \in {GitHub(S_a, S_b, S_ab), Dir(S_a)},
        n \in StackSizes, flags \in StrLists, exts \in StrLists }

\* a and b differ in exactly one of stack size, extra flags, extension list
DiffersInOneField(a, b) ==
    /\ a.source = b.source
    /\ \/ /\ a.asyncify_stack_size # b.asyncify_stack_size
          /\ a.extra_cc_args = b.extra_cc_args
          /\ a.enabled_extentions = b.enabled_extentions
       \/ /\ a.asyncify_stack_size = b.asyncify_stack_size
          /\ a.extra_cc_args # b.extra_cc_args
          /\ a.enabled_extentions = b.enabled_extentions
       \/ /\ a.asyncify_stack_size = b.asyncify_stack_size
          /\ a.extra_cc_args = b.extra_cc_args
          /\ a.enabled_extentions # b.enabled_extentions

InitHash ==
    /\ WorkspaceCreated
    /\ env = <<>>
    /\ save_temps = FALSE
    /\ NoMain
    /\ PATH = <<>>
    /\ arg \in {ab \in HashInputs \X HashInputs : DiffersInOneField(ab[1], ab[2])}
    /\ ret = <<>>

\* build_cruby's call of hashed_dirs, for both inputs
ResolveDirs ==
    /\ ret = <<>>
    /\ ret' = <<[a |-> hashed_dirs(arg[1], "ruby"), b |-> hashed_dirs(arg[2], "ruby")]>>
    /\ UNCHANGED <<buildVars, arg, mainVars>>

SpecHash == InitHash /\ [][ResolveDirs]_vars

\* C3 (cache discrimination): two inputs that differ only in the extension
\* list, only in the extra flags or only in the stack size resolve to different
\* build directories and to different install directories.
C3_CacheDiscrimination ==
    ret # <<>> =>
        /\ ret[1].a.build_dir # ret[1].b.build_dir
        /\ ret[1].a.install_dir # ret[1].b.install_dir

\* resolved: two inputs that differ only in how the same flag bytes are split
C3_Witness ==
    /\ ret # <<>>
    /\ arg[1].extra_cc_args = <<S_aa, S_a>>
    /\ arg[2].extra_cc_args = <<S_a, S_aa>>
    /\ arg[1].enabled_extentions = arg[2].enabled_extentions
    /\ arg[1].asyncify_stack_size = arg[2].asyncify_stack_size

----------------------------------------------------------------------------
(* Paths: a sequence of components, "/" being the root component of an       *)
(* absolute path.                                                            *)

\* Path::strip_prefix: <<the rest>>, or <<>> when base is no prefix of path
strip_prefix(path, base) ==
    IF Len(base) <= Len(path) /\ SubSeq(path, 1, Len(base)) = base
    THEN <<SubSeq(path, Len(base) + 1, Len(path))>>
    ELSE <<>>

\* Path::join: an absolute rel replaces base
join(base, rel) == IF rel # <<>> /\ rel[1] = "/" THEN rel ELSE base \o rel

magic_prefix == <<"@ruby_root">>

\* expand_map_dir that expands the host side only
expand_map_dir_HostOnly(map_dir, host_ruby_root, guest_ruby_root) ==
    LET guest == map_dir[1]
        host == map_dir[2]
        h == strip_prefix(host, magic_prefix)
    IN  <<guest, IF h # <<>> THEN join(host_ruby_root, h[1]) ELSE host>>

\* expand_map_dir: (guest, host) |-> (guest, host)
expand_map_dir(map_dir, host_ruby_root, guest_ruby_root) ==
    LET guest == map_dir[1]
        host == map_dir[2]
        h == strip_prefix(host, magic_prefix)
        g == strip_prefix(guest, magic_prefix)
    IN  <<IF g # <<>> THEN join(guest_ruby_root, g[1]) ELSE guest,
          IF h # <<>> THEN join(host_ruby_root, h[1]) ELSE host>>

----------------------------------------------------------------------------
(* expand_map_dir on every pair of short paths *)

\* most components of a path below its root
MaxDepth == 3

Names == {"@ruby_root", "@ruby_rootx", "lib", "gems"}

MapPaths ==
    SeqsUpTo(Names, MaxDepth) \cup {<<"/">> \o r : r \in SeqsUpTo(Names, MaxDepth - 1)}

InitExpand ==
    /\ WorkspaceCreated
    /\ env = <<>>
    /\ save_temps = FALSE
    /\ NoMain
    /\ PATH = <<>>
    /\ arg \in [map_dir : MapPaths \X MapPaths,
                host_ruby_root : {<<"/", "install", "prefix">>},
                guest_ruby_root : {<<"/", "prefix">>}]
    /\ ret = <<>>

\* mkfs's call of expand_map_dir on one mapping
Expand ==
    /\ ret = <<>>
    /\ ret' = <<expand_map_dir(arg.map_dir, arg.host_ruby_root, arg.guest_ruby_root)>>
    /\ UNCHANGED <<buildVars, arg, mainVars>>

SpecExpand == InitExpand /\ [][Expand]_vars

\* the first component of p is the magic prefix
C8_HasMagic(p) == p # <<>> /\ p[1] = "@ruby_root"

\* C8 (path-mapping expansion): the host side that starts with the magic prefix
\* becomes host_root joined with the rest, the guest side that starts with it
\* becomes guest_root joined with the rest, each side whatever the other one
\* is, and a side that does not start with it comes back unchanged.
C8_Expansion ==
    ret # <<>> =>
        LET guest == arg.map_dir[1]
            host == arg.map_dir[2]
        IN  /\ ret[1][1] = IF C8_HasMagic(guest)
                           THEN arg.guest_ruby_root \o Tail(guest) ELSE guest
            /\ ret[1][2] = IF C8_HasMagic(host)
                           THEN arg.host_ruby_root \o Tail(host) ELSE host

\* test_expand_map_dir: ("/gems", "@ruby_root/lib/gems") has been expanded
C8_Witness ==
    /\ ret # <<>>
    /\ arg.map_dir = << <<"/", "gems">>, <<"@ruby_root", "lib", "gems">> >>
    /\ ret[1][2] = <<"/", "install", "prefix", "lib", "gems">>
    /\ ret[1][1] = <<"/", "gems">>

----------------------------------------------------------------------------
(* builtin_map_paths.  The tree below the root is given by the set of its    *)
(* files, each an absolute path; a directory is a proper prefix of a file.    *)

IsProperPrefix(dir, path) ==
    Len(dir) < Len(path) /\ SubSeq(path, 1, Len(dir)) = dir

\* Path::is_dir
is_dir(path, files) == \E f \in files : IsProperPrefix(path, f)

\* std::fs::read_dir: the names in dir
read_dir(dir, files) ==
    {f[Len(dir) + 1] : f \in {g \in files : IsProperPrefix(dir, g)}}

\* the name ends in ".gem"
EndsWithDotGem(name) == name \in {"a.gem", ".gem"}

\* ".*/cache/.*\.gem$" on the text of the path: a component "cache" that
\* follows a slash, and ".gem" at the end of what follows it
MatchesCacheGem(path) ==
    /\ EndsWithDotGem(path[Len(path)])
    /\ \E i \in 2..(Len(path) - 1) : path[i] = "cache"

\* ".*/libruby-static\.a$"
MatchesStaticLib(path) ==
    Len(path) >= 2 /\ path[Len(path)] = "libruby-static.a"

\* ".*/bin/ruby$"
MatchesBinRuby(path) ==
    Len(path) >= 3 /\ path[Len(path)] = "ruby" /\ path[Len(path) - 1] = "bin"

\* the exclusion list without the static library
is_excluded_NoStaticLib(path) == MatchesCacheGem(path) \/ MatchesBinRuby(path)

\* excludes.iter().any(|x| x.is_match(&path_str))
is_excluded(path) ==
    MatchesCacheGem(path) \/ MatchesStaticLib(path) \/ MatchesBinRuby(path)

RECURSIVE visit_dirs(_, _, _)
RECURSIVE visit_entries(_, _, _, _)

\* the loop of visit_dirs over the entries of dir, in the order read_dir
\* yields them
visit_entries(dir, names, files, paths) ==
    IF names = {}
    THEN paths
    ELSE LET name == CHOOSE n \in names : TRUE
             path == Append(dir, name)
         IN  visit_entries(dir, names \ {name}, files,
                 IF is_dir(path, files)
                 THEN visit_dirs(path, files, paths)
                 ELSE IF ~is_excluded(path) THEN Append(paths, path) ELSE paths)

\* visit_dirs: paths with the files below dir that are not excluded
visit_dirs(dir, files, paths) == visit_entries(dir, read_dir(dir, files), files, paths)

\* builtin_map_paths that joins the magic prefix with the whole path
builtin_map_paths_NoStrip(installed_ruby_root, files) ==
    LET paths == visit_dirs(installed_ruby_root, files, <<>>)
    IN  [i \in 1..Len(paths) |-> << join(magic_prefix, paths[i]), paths[i] >>]

\* builtin_map_paths
builtin_map_paths(installed_ruby_root, files) ==
    LET paths == visit_dirs(installed_ruby_root, files, <<>>)
    IN  [i \in 1..Len(paths) |->
            << join(magic_prefix, strip_prefix(paths[i], installed_ruby_root)[1]),
               paths[i] >>]

----------------------------------------------------------------------------
(* builtin_map_paths on small trees *)

\* most files in the tree
MaxFiles == 3

DirPrefixes ==
    {<<>>, <<"bin">>, <<"lib">>, <<"cache">>, <<"lib", "cache">>, <<"lib", "bin">>}
FileNames == {"ruby", "a.gem", "a.rb", "libruby-static.a"}

\* the files a tree may hold, relative to its root
RelFiles == {d \o <<f>> : d \in DirPrefixes, f \in FileNames}

RECURSIVE SubsetsUpTo(_, _)
\* the subsets of S with at most n elements
SubsetsUpTo(S, n) ==
    IF n = 0 THEN {{}}
    ELSE LET P == SubsetsUpTo(S, n - 1) IN P \cup {q \cup {x} : q \in P, x \in S}

\* the installed runtime root: install_dir joined with the prefix, as main
\* computes it, and a root outside of a workspace
RubyRoots ==
    { <<"/", "ws", "cache", "ruby-0a", "embd-root", "ruby">>,
      <<"/", "opt", "embd-root", "ruby">> }

InitBuiltin ==
    /\ WorkspaceCreated
    /\ env = <<>>
    /\ save_temps = FALSE
    /\ NoMain
    /\ PATH = <<>>
    /\ arg \in [root : RubyRoots, files : SubsetsUpTo(RelFiles, MaxFiles)]
    /\ ret = <<>>

\* main's call of builtin_map_paths
Builtin ==
    /\ ret = <<>>
    /\ ret' = <<builtin_map_paths(arg.root, {arg.root \o f : f \in arg.files})>>
    /\ UNCHANGED <<buildVars, arg, mainVars>>

SpecBuiltin == InitBuiltin /\ [][Builtin]_vars

\* C9 (exclusion filtering): the result holds exactly one mapping for every
\* file of the tree whose path matches no exclusion pattern and none for a
\* file that matches one; every mapping is (magic prefix joined with the
\* root-relative path, real path) of a file of the tree; a gem below a cache
\* directory, the static library and bin/ruby at the top never appear.
C9_ExclusionFiltering ==
    ret # <<>> =>
        LET out == ret[1]
            Count(p) == Cardinality({i \in 1..Len(out) : out[i][2] = p})
        IN  /\ \A f \in arg.files :
                  Count(arg.root \o f) = IF is_excluded(arg.root \o f) THEN 0 ELSE 1
            /\ \A i \in 1..Len(out) :
                  \E f \in arg.files :
                     /\ out[i] = << <<"@ruby_root">> \o f, arg.root \o f >>
                     /\ f # <<"bin", "ruby">>
                     /\ f[Len(f)] # "libruby-static.a"
                     /\ ~ (f[Len(f)] = "a.gem" /\ \E k \in 1..(Len(f) - 1) : f[k] = "cache")

\* a tree with a gem in a cache directory, which is left out, and a file next
\* to it, which is mapped
C9_Witness ==
    /\ ret # <<>>
    /\ arg.files = {<<"lib", "cache", "a.gem">>, <<"lib", "cache", "a.rb">>}
    /\ ret[1] = << << <<"@ruby_root", "lib", "cache", "a.rb">>,
                      arg.root \o <<"lib", "cache", "a.rb">> >> >>

----------------------------------------------------------------------------
(* main: the pipeline.  Every stage either reports success or an error, which *)
(* `?` returns from main.                                                     *)

\* --mapdir
MapDirOptions ==
    { <<>>,
      << << <<"/", "gems">>, <<"@ruby_root", "lib", "gems">> >> >>,
      << << <<"@ruby_root", "lib", "a.rb">>, <<"/", "over", "a.rb">> >>,
         << <<"/", "gems">>, <<"@ruby_root", "lib", "gems">> >> >> }

\* PRESET_ARGS
PresetArgOptions == { <<>>, <<"-e">> }

Opts ==
    [no_builtin_files : BOOLEAN, map_dirs : MapDirOptions, preset_args : PresetArgOptions]

\* what the interpreter build may have installed below the runtime root
InstalledTrees == { {}, {<<"bin", "ruby">>}, {<<"bin", "ruby">>, <<"lib", "a.rb">>} }

\* the BuildResult build_cruby returned to main
cruby_install_dir == <<"/", "ws", "cache", "ruby-0a">>
cruby_prefix == <<"/", "embd-root", "ruby">>
cruby_build_dir == <<"/", "ws", "build", "ruby-0a">>

\* cruby.install_dir.join(cruby.prefix.strip_prefix("/"))
installed_ruby_root == join(cruby_install_dir, strip_prefix(cruby_prefix, <<"/">>)[1])

\* cruby.prefix.strip_prefix("/embd-root").unwrap()
guest_ruby_root == strip_prefix(cruby_prefix, <<"/", "embd-root">>)[1]

\* opt.output
output == <<"ruby.wasm">>

\* the variables of the build model that main's own steps leave alone
buildVarsButDisk == <<env, save_temps, pc, call, log, children, last, ncalls>>

Ran(stage, ok) == Append(mlog, [stage |-> stage, ok |-> ok])

\* AfterMapPaths without the check of map_paths.is_empty()
AfterMapPaths_AlwaysMkfs(paths) == "mkfs"

\* the stage after the mapping list is complete
AfterMapPaths(paths) ==
    IF paths # <<>> THEN "mkfs"
    ELSE IF opt.preset_args # <<>> THEN "mkargs"
    ELSE "link"

\* the directories Workspace::create makes, in its order
WorkspaceDirs == <<build_dir, downloads_dir, cache_dir, temporary_dir>>

RECURSIVE create_dirs(_, _)
\* std::fs::create_dir_all for each directory of dirs, in order
create_dirs(f, dirs) ==
    IF dirs = <<>> THEN f
    ELSE create_dirs(IF Head(dirs) \in DOMAIN f THEN f
                     ELSE Put(f, Head(dirs), [kind |-> "workspace"]), Tail(dirs))

\* Workspace::create(..)?  It fails at one of its four create_dir_all, with
\* the directories before that one made.
MainWorkspaceCreate(ok) ==
    /\ mpc = "create"
    /\ mlog' = Ran("create", ok)
    /\ mpc' = IF ok THEN "toolchain" ELSE "failed"
    /\ \E k \in 0..Len(WorkspaceDirs) :
          /\ ok <=> k = Len(WorkspaceDirs)
          /\ fs' = create_dirs(fs, SubSeq(WorkspaceDirs, 1, k))
    /\ UNCHANGED <<opt, map_paths, raw_objects, buildVarsButDisk, ntemp, pureVars, toolVars>>

\* toolchain::install_build_toolchain(&workspace)?
MainInstallToolchain(ok) ==
    /\ mpc = "toolchain"
    /\ mlog' = Ran("toolchain", ok)
    /\ mpc' = IF ok THEN "support" ELSE "failed"
    /\ UNCHANGED <<opt, map_paths, raw_objects, buildVars, pureVars, toolVars>>

\* build_rb_wasm_support(..)?
MainBuildSupport(ok) ==
    /\ mpc = "support"
    /\ mlog' = Ran("support", ok)
    /\ mpc' = IF ok THEN "cruby" ELSE "failed"
    /\ UNCHANGED <<opt, map_paths, raw_objects, buildVars, pureVars, toolVars>>

\* build_cruby(..)? that does not run make install: a cache hit, or an error
\* before the spawn of make.  An error inside with_overriding_command comes
\* after the stub directory was made, which is dropped unless save_temps.
MainBuildCruby(ok) ==
    /\ mpc = "cruby"
    /\ mlog' = Ran("cruby", ok)
    /\ mpc' = IF ok THEN IF opt.no_builtin_files THEN "map_dirs" ELSE "builtin" ELSE "failed"
    /\ \E made \in BOOLEAN :
          /\ made => ~ok
          /\ fs' = IF made THEN DropStub(Put(fs, TempDir(ntemp), StubDirEntry), TempDir(ntemp))
                   ELSE fs
          /\ ntemp' = IF made THEN ntemp + 1 ELSE ntemp
    /\ UNCHANGED <<opt, map_paths, raw_objects, buildVarsButDisk, pureVars, toolVars>>

\* build_cruby up to make.status(): the stub directory is made and make install
\* is spawned in the build directory with the stub directory in its PATH
MainMakeStart ==
    /\ mpc = "cruby"
    /\ fs' = Put(fs, TempDir(ntemp), StubDirEntry)
    /\ ntemp' = ntemp + 1
    /\ children' = {Child("make", cruby_build_dir, "", TempDir(ntemp),
                          new_path(TempDir(ntemp)))}
    /\ mpc' = "make_wait"
    /\ UNCHANGED <<env, save_temps, pc, call, log, last, ncalls>>
    /\ UNCHANGED <<opt, mlog, map_paths, raw_objects, pureVars, toolVars>>

\* build_cruby(..)? from the exit of make install: with_overriding_command
\* returns and drops the stub directory unless save_temps
MainMakeExit(ok) ==
    /\ mpc = "make_wait"
    /\ \E c \in children :
          /\ children' = children \ {c}
          /\ fs' = DropStub(fs, c.stub)
    /\ mlog' = Ran("cruby", ok)
    /\ mpc' = IF ok THEN IF opt.no_builtin_files THEN "map_dirs" ELSE "builtin" ELSE "failed"
    /\ UNCHANGED <<env, save_temps, pc, call, log, last, ncalls, ntemp>>
    /\ UNCHANGED <<opt, map_paths, raw_objects, pureVars, toolVars>>

\* builtin_map_paths(&installed_ruby_root)? and map_paths.extend(opt.map_dirs)
MainBuiltinMapPaths(ok, tree) ==
    /\ mpc = "builtin"
    /\ mlog' = Ran("builtin", ok)
    /\ IF ok
       THEN /\ map_paths' =
                 builtin_map_paths(installed_ruby_root,
                                   {installed_ruby_root \o f : f \in tree})
                     \o opt.map_dirs
            /\ mpc' = AfterMapPaths(map_paths')
       ELSE /\ mpc' = "failed"
            /\ UNCHANGED map_paths
    /\ UNCHANGED <<opt, raw_objects, buildVars, pureVars, toolVars>>

\* --no-builtin-files: vec![], and map_paths.extend(opt.map_dirs)
MainNoBuiltinFiles ==
    /\ mpc = "map_dirs"
    /\ map_paths' = opt.map_dirs
    /\ mpc' = AfterMapPaths(map_paths')
    /\ UNCHANGED <<opt, mlog, raw_objects, buildVars, pureVars, toolVars>>

\* mkfs with entries of the same guest path merged into the last one
mkfs_map_paths_Dedup(paths, host_ruby_root, guest_root) ==
    LET e == [i \in 1..Len(paths) |-> expand_map_dir(paths[i], host_ruby_root, guest_root)]
        RECURSIVE Keep(_)
        Keep(i) ==
            IF i > Len(e) THEN <<>>
            ELSE IF \E j \in (i + 1)..Len(e) : e[j][1] = e[i][1] THEN Keep(i + 1)
            ELSE <<e[i]>> \o Keep(i + 1)
    IN  Keep(1)

\* mkfs: input.map_paths.into_iter().map(|map| expand_map_dir(map, ..)), the
\* list generate_c_source is handed
mkfs_map_paths(paths, host_ruby_root, guest_root) ==
    [i \in 1..Len(paths) |-> expand_map_dir(paths[i], host_ruby_root, guest_root)]

\* mkfs(..)? and raw_objects.push(("fs.o", bytes))
MainMkfs(ok) ==
    /\ mpc = "mkfs"
    /\ mlog' = Ran("mkfs", ok)
    /\ image' = <<mkfs_map_paths(map_paths, installed_ruby_root, guest_ruby_root)>>
    /\ raw_objects' = IF ok THEN Append(raw_objects, "fs.o") ELSE raw_objects
    /\ mpc' = IF ~ok THEN "failed"
              ELSE IF opt.preset_args # <<>> THEN "mkargs" ELSE "link"
    /\ UNCHANGED <<opt, map_paths, cmds, tempfile_owner, workspace_dropped, PATH>>
    /\ UNCHANGED <<buildVars, pureVars>>

\* mkargs(..)? and raw_objects.push(("preset_args.o", bytes))
MainMkargs(ok) ==
    /\ mpc = "mkargs"
    /\ mlog' = Ran("mkargs", ok)
    /\ raw_objects' = IF ok THEN Append(raw_objects, "preset_args.o") ELSE raw_objects
    /\ mpc' = IF ok THEN "link" ELSE "failed"
    /\ UNCHANGED <<opt, map_paths, buildVars, pureVars, toolVars>>

\* the file tempfile_in(temporary_dir) creates: the prefix and a fresh suffix
TempFile(prefix, n) == Append(temporary_dir, <<prefix, <<n>>>>)

TempfileEntry(prefix) == [kind |-> "tempfile", prefix |-> prefix]

\* Workspace::tempfile that drops the file at its return when save_temps
tempfile_NotKept(w, prefix) ==
    LET path == TempFile(prefix, w.ntemp)
    IN  [fs |-> IF save_temps THEN w.fs ELSE Put(w.fs, path, TempfileEntry(prefix)),
         owner |-> IF save_temps THEN w.owner ELSE Append(w.owner, path),
         ntemp |-> w.ntemp + 1,
         paths |-> Append(w.paths, path)]

\* Workspace::tempfile that hands every file to tempfile_owner
tempfile_AlwaysOwned(w, prefix) ==
    LET path == TempFile(prefix, w.ntemp)
    IN  [fs |-> Put(w.fs, path, TempfileEntry(prefix)),
         owner |-> Append(w.owner, path),
         ntemp |-> w.ntemp + 1,
         paths |-> Append(w.paths, path)]

\* Workspace::tempfile on the workspace w (its disk, its tempfile_owner, the
\* paths it has returned): the file is written, then kept on disk (save_temps)
\* or handed to tempfile_owner
tempfile(w, prefix) ==
    LET path == TempFile(prefix, w.ntemp)
    IN  [fs |-> Put(w.fs, path, TempfileEntry(prefix)),
         owner |-> IF save_temps THEN w.owner ELSE Append(w.owner, path),
         ntemp |-> w.ntemp + 1,
         paths |-> Append(w.paths, path)]

RECURSIVE tempfiles(_, _)
\* Workspace::tempfile for every prefix, in order
tempfiles(w, prefixes) ==
    IF prefixes = <<>> THEN w ELSE tempfiles(tempfile(w, Head(prefixes)), Tail(prefixes))

\* the files link_executable writes: every raw object, then the bundled archive
LinkFiles == Append(raw_objects, "libwasi_vfs.a")

\* an invocation of an external tool by main
Command(cmd, input, objects, libs, status) ==
    [cmd |-> cmd, input |-> input, objects |-> objects, libs |-> libs,
     path |-> PATH, status |-> status]

\* the linker command with the archive only when there are objects
LinkerCommand_ArchiveWithObjects(paths, status) ==
    Command("wasm-ld", installed_ruby_root \o <<"bin", "ruby">>,
            SubSeq(paths, 1, Len(paths) - 1),
            IF Len(paths) > 1 THEN <<paths[Len(paths)]>> ELSE <<>>, status)

\* link_executable: wasm-ld <install_dir>/<prefix>/bin/ruby .. <objects> <libwasi_vfs.a>
LinkerCommand(paths, status) ==
    Command("wasm-ld", installed_ruby_root \o <<"bin", "ruby">>,
            SubSeq(paths, 1, Len(paths) - 1), <<paths[Len(paths)]>>, status)

\* link_executable before link.status(): the workspace after the temporary
\* files of the first k of LinkFiles
LinkTempfiles(k) ==
    tempfiles([fs |-> fs, owner |-> tempfile_owner, ntemp |-> ntemp, paths |-> <<>>],
              SubSeq(LinkFiles, 1, k))

\* link_executable(..)? that fails before the linker runs: at the temporary
\* file after the first k, or with all of them written at the spawn
MainLinkFail ==
    /\ mpc = "link"
    /\ \E k \in 0..Len(LinkFiles) :
          LET w == LinkTempfiles(k)
          IN  /\ fs' = w.fs
              /\ tempfile_owner' = w.owner
              /\ ntemp' = w.ntemp
    /\ mlog' = Ran("link", FALSE)
    /\ mpc' = "failed"
    /\ UNCHANGED <<opt, map_paths, raw_objects, image, cmds, workspace_dropped, PATH>>
    /\ UNCHANGED <<buildVarsButDisk, pureVars>>

\* link_executable up to link.status(): every temporary file is written and
\* the linker is spawned
MainLinkStart ==
    /\ mpc = "link"
    /\ LET w == LinkTempfiles(Len(LinkFiles))
       IN  /\ fs' = w.fs
           /\ tempfile_owner' = w.owner
           /\ ntemp' = w.ntemp
           /\ cmds' = Append(cmds, LinkerCommand(w.paths, "running"))
    /\ mpc' = "link_wait"
    /\ UNCHANGED <<opt, mlog, map_paths, raw_objects, image, workspace_dropped, PATH>>
    /\ UNCHANGED <<buildVarsButDisk, pureVars>>

\* a link stage whose error is dropped
MainLinkExit_ErrorDropped(ok) ==
    /\ mpc = "link_wait"
    /\ cmds' = [cmds EXCEPT ![Len(cmds)].status = IF ok THEN "success" ELSE "failure"]
    /\ mlog' = Ran("link", ok)
    /\ mpc' = "asyncify"
    /\ UNCHANGED <<opt, map_paths, raw_objects, image, tempfile_owner, workspace_dropped, PATH>>
    /\ UNCHANGED <<buildVars, pureVars>>

\* link_executable(..)? from the exit of the linker
MainLinkExit(ok) ==
    /\ mpc = "link_wait"
    /\ cmds' = [cmds EXCEPT ![Len(cmds)].status = IF ok THEN "success" ELSE "failure"]
    /\ mlog' = Ran("link", ok)
    /\ mpc' = IF ok THEN "asyncify" ELSE "failed"
    /\ UNCHANGED <<opt, map_paths, raw_objects, image, tempfile_owner, workspace_dropped, PATH>>
    /\ UNCHANGED <<buildVars, pureVars>>

\* asyncify_executable(..)? and Ok(())
MainAsyncify(ok) ==
    /\ mpc = "asyncify"
    /\ mlog' = Ran("asyncify", ok)
    /\ \E spawned \in BOOLEAN :
          /\ ok => spawned
          /\ cmds' = IF spawned
                     THEN Append(cmds, Command("wasm-opt", output, <<>>, <<>>,
                                               IF ok THEN "success" ELSE "failure"))
                     ELSE cmds
    /\ mpc' = IF ok THEN "done" ELSE "failed"
    /\ UNCHANGED <<opt, map_paths, raw_objects, image, tempfile_owner, workspace_dropped, PATH>>
    /\ UNCHANGED <<buildVars, pureVars>>

\* main returns: its Workspace is dropped, and with it the files of tempfile_owner
MainReturn ==
    /\ mpc \in {"done", "failed"}
    /\ ~workspace_dropped
    /\ workspace_dropped' = TRUE
    /\ fs' = [p \in DOMAIN fs \ {tempfile_owner[i] : i \in DOMAIN tempfile_owner} |-> fs[p]]
    /\ tempfile_owner' = <<>>
    /\ UNCHANGED <<opt, mpc, mlog, map_paths, raw_objects, image, cmds, PATH>>
    /\ UNCHANGED <<buildVarsButDisk, ntemp, pureVars>>

InitMain ==
    /\ fs = <<>>
    /\ pc = "idle"
    /\ call = <<>>
    /\ log = <<>>
    /\ children = {}
    /\ last = <<>>
    /\ ncalls = 0
    /\ ntemp = 0
    /\ env = <<>>
    /\ save_temps \in BOOLEAN
    /\ NoCall
    /\ opt \in Opts
    /\ mpc = "create"
    /\ mlog = <<>>
    /\ map_paths = <<>>
    /\ raw_objects = <<>>
    /\ image = <<>>
    /\ cmds = <<>>
    /\ tempfile_owner = <<>>
    /\ workspace_dropped = FALSE
    /\ PATH \in PathValues

NextMain ==
    \/ \E ok \in BOOLEAN : MainWorkspaceCreate(ok)
    \/ \E ok \in BOOLEAN : MainInstallToolchain(ok)
    \/ \E ok \in BOOLEAN : MainBuildSupport(ok)
    \/ \E ok \in BOOLEAN : MainBuildCruby(ok)
    \/ MainMakeStart
    \/ \E ok \in BOOLEAN : MainMakeExit(ok)
    \/ \E ok \in BOOLEAN, tree \in InstalledTrees : MainBuiltinMapPaths(ok, tree)
    \/ MainNoBuiltinFiles
    \/ \E ok \in BOOLEAN : MainMkfs(ok)
    \/ \E ok \in BOOLEAN : MainMkargs(ok)
    \/ MainLinkFail
    \/ MainLinkStart
    \/ \E ok \in BOOLEAN : MainLinkExit(ok)
    \/ \E ok \in BOOLEAN : MainAsyncify(ok)
    \/ MainReturn

SpecMain == InitMain /\ [][NextMain]_vars

\* the place of a step of main among the six stages of the pipeline
C10_Rank(stage) ==
    CASE stage = "create" -> 0
      [] stage = "toolchain" -> 1
      [] stage = "support" -> 2
      [] stage = "cruby" -> 3
      [] stage \in {"builtin", "mkfs", "mkargs"} -> 4
      [] stage = "link" -> 5
      [] stage = "asyncify" -> 6

\* how many times a step was started
C10_Times(stage) == Cardinality({i \in 1..Len(mlog) : mlog[i].stage = stage})

\* C10 (fail-fast ordering): the stages of a run are started in the order
\* toolchain, support build, interpreter build, object generation, link,
\* post-process, a stage only after every earlier one reported success, the
\* linker and the post-process tool at most once, and after a stage has failed
\* none is started.
C10_FailFastOrder ==
    /\ \A i, j \in 1..Len(mlog) :
          i < j => C10_Rank(mlog[i].stage) <= C10_Rank(mlog[j].stage)
    /\ \A i, j \in 1..Len(mlog) :
          (i < j /\ C10_Rank(mlog[j].stage) # 4) =>
              C10_Rank(mlog[i].stage) < C10_Rank(mlog[j].stage)
    /\ \A i \in 1..(Len(mlog) - 1) : mlog[i].ok
    /\ \A i \in 1..Len(mlog) :
          \A r \in 1..(C10_Rank(mlog[i].stage) - 1) :
             r # 4 => \E k \in 1..(i - 1) : C10_Rank(mlog[k].stage) = r /\ mlog[k].ok
    /\ C10_Times("link") <= 1
    /\ C10_Times("asyncify") <= 1
    /\ mpc = "failed" <=> (mlog # <<>> /\ ~mlog[Len(mlog)].ok)
    /\ mpc = "done" => (mlog # <<>> /\ mlog[Len(mlog)].stage = "asyncify")

\* a run whose link failed after both objects were generated
C10_Witness ==
    /\ mpc = "failed"
    /\ mlog[Len(mlog)].stage = "link"
    /\ raw_objects = <<"fs.o", "preset_args.o">>

\* the linker invocations of the run
C16_Links == {i \in 1..Len(cmds) : cmds[i].cmd = "wasm-ld"}

\* the objects that were asked for: the image when there are mappings, the
\* preset arguments when there are any
C16_Requested ==
    (IF map_paths # <<>> THEN <<"fs.o">> ELSE <<>>)
        \o (IF opt.preset_args # <<>> THEN <<"preset_args.o">> ELSE <<>>)

\* C16 (conditional objects): mkfs runs only on a non-empty mapping list and
\* mkargs only on non-empty preset arguments, and the linker is handed
\* exactly the objects that were asked for, one file each and nothing else.
C16_ConditionalObjects ==
    /\ (\E i \in 1..Len(mlog) : mlog[i].stage = "mkfs") => map_paths # <<>>
    /\ (\E i \in 1..Len(mlog) : mlog[i].stage = "mkargs") => opt.preset_args # <<>>
    /\ image # <<>> => image[1] # <<>>
    /\ mpc \in {"link", "asyncify", "done"} => raw_objects = C16_Requested
    /\ \A i \in C16_Links :
          /\ raw_objects = C16_Requested
          /\ Len(cmds[i].objects) = Len(C16_Requested)
          /\ \A k \in 1..Len(cmds[i].objects) :
                cmds[i].objects[k][3][1] = C16_Requested[k]

\* the linker ran with the preset arguments alone: no image was asked for
C16_Witness ==
    /\ map_paths = <<>>
    /\ opt.preset_args # <<>>
    /\ \E i \in C16_Links :
          /\ Len(cmds[i].objects) = 1
          /\ cmds[i].objects[1][3][1] = "preset_args.o"

\* C17 (link inputs): the linker is invoked at most once, and once when the
\* link stage succeeds; it is given <install_dir>/<prefix>/bin/ruby, one
\* temporary file of its own per auxiliary object, in order, and the bundled
\* archive, also when there are no objects; its non-zero exit fails the stage.
C17_LinkInputs ==
    /\ Cardinality(C16_Links) <= 1
    /\ (\E i \in 1..Len(mlog) : mlog[i].stage = "link" /\ mlog[i].ok) =>
          Cardinality(C16_Links) = 1
    /\ \A i \in C16_Links :
          LET c == cmds[i]
          IN  /\ c.input = <<"/", "ws", "cache", "ruby-0a", "embd-root", "ruby", "bin", "ruby">>
              /\ Len(c.objects) = Len(raw_objects)
              /\ \A k \in 1..Len(c.objects) : c.objects[k][3][1] = raw_objects[k]
              /\ \A k, l \in 1..Len(c.objects) : k # l => c.objects[k] # c.objects[l]
              /\ Len(c.libs) = 1
              /\ c.libs[1][3][1] = "libwasi_vfs.a"
              /\ ~workspace_dropped =>
                    \A k \in 1..Len(c.objects) :
                       /\ c.objects[k] \in DOMAIN fs
                       /\ fs[c.objects[k]] = TempfileEntry(raw_objects[k])
              /\ ~workspace_dropped => c.libs[1] \in DOMAIN fs
              /\ c.status = "failure" =>
                    /\ mpc = "failed"
                    /\ mlog[Len(mlog)] = [stage |-> "link", ok |-> FALSE]

\* the linker ran without auxiliary objects, with the archive, and failed
C17_Witness ==
    /\ mpc = "failed"
    /\ \E i \in C16_Links :
          /\ cmds[i].objects = <<>>
          /\ Len(cmds[i].libs) = 1
          /\ cmds[i].status = "failure"

\* a built-in mapping: @ruby_root/<rel> for the file <installed_ruby_root>/<rel>
C18_IsBuiltin(m) ==
    /\ m[1] # <<>>
    /\ m[1][1] = "@ruby_root"
    /\ m[2] = installed_ruby_root \o Tail(m[1])

\* C18 (mapping order): the list mkfs is called with is the built-in mappings
\* (none with --no-builtin-files) followed by the --mapdir mappings in the
\* order given, and the list handed to the image generator is its expansion
\* entry by entry: same length, same order, entries of equal guest path kept.
C18_MappingOrder ==
    image # <<>> =>
       LET n == Len(map_paths) - Len(opt.map_dirs)
       IN  /\ n >= 0
           /\ opt.no_builtin_files => n = 0
           /\ \A i \in 1..n : C18_IsBuiltin(map_paths[i])
           /\ SubSeq(map_paths, n + 1, Len(map_paths)) = opt.map_dirs
           /\ Len(image[1]) = Len(map_paths)
           /\ \A i \in 1..Len(map_paths) :
                 image[1][i] = expand_map_dir(map_paths[i], installed_ruby_root,
                                              <<"ruby">>)

\* the image generator was handed a built-in mapping and a --mapdir mapping of
\* the same guest path
C18_Witness ==
    /\ image # <<>>
    /\ \E i, j \in 1..Len(image[1]) :
          /\ i < j
          /\ image[1][i][1] = image[1][j][1]
          /\ C18_IsBuiltin(map_paths[i])
          /\ ~C18_IsBuiltin(map_paths[j])

\* the temporary files and the stub directories on disk
C20_Tempfiles == {p \in DOMAIN fs : fs[p].kind = "tempfile"}
C20_Stubs == {p \in DOMAIN fs : fs[p].kind = "stub"}

\* C20 as stated (scoped temporaries): without save_temps a temporary file is
\* gone when the step that created it has ended (the files of link_executable
\* once main has gone on to asyncify_executable), as a stub directory is when
\* its make install has; with save_temps both stay.
C20_DeletedAtEndOfStep ==
    /\ [](~save_temps =>
             /\ mpc \in {"asyncify", "done"} => C20_Tempfiles = {}
             /\ \A p \in C20_Stubs : \E c \in children : c.cmd = "make" /\ c.stub = p)
    /\ [][save_temps => (C20_Tempfiles \cup C20_Stubs) \subseteq DOMAIN fs']_vars

\* C20, amended: without save_temps a temporary file is owned by the Workspace
\* from its creation and is gone when the Workspace has been dropped, and a
\* stub directory is gone when its make install has ended; with save_temps the
\* Workspace owns nothing and no step removes a temporary file or a stub
\* directory, the drop of the Workspace included.
C20_ScopedTemporaries ==
    /\ [](/\ ~save_temps =>
               /\ C20_Tempfiles = {tempfile_owner[i] : i \in DOMAIN tempfile_owner}
               /\ workspace_dropped => C20_Tempfiles = {}
               /\ \A p \in C20_Stubs : \E c \in children : c.cmd = "make" /\ c.stub = p
          /\ save_temps => tempfile_owner = <<>>)
    /\ [][save_temps => (C20_Tempfiles \cup C20_Stubs) \subseteq DOMAIN fs']_vars

\* main has returned after a link of two objects and the archive: without
\* save_temps no temporary file is left
C20_Witness ==
    /\ ~save_temps
    /\ workspace_dropped
    /\ \E i \in 1..Len(cmds) : Len(cmds[i].objects) = 2 /\ Len(cmds[i].libs) = 1
    /\ C20_Tempfiles = {}

----------------------------------------------------------------------------
(* parse_build_src: a string is the sequence of its characters *)

\* longest text after the kind and its colon
MaxSpecLen == 5

Str_github == <<"g", "i", "t", "h", "u", "b">>
Str_path == <<"p", "a", "t", "h">>

RECURSIVE split(_, _)
\* str::split(sep) for a separator of one character: the pieces between the
\* separators, of which there is always at least one
split(s, sep) ==
    IF \E i \in 1..Len(s) : s[i] = sep
    THEN LET i == CHOOSE k \in 1..Len(s) :
                     s[k] = sep /\ \A l \in 1..(k - 1) : s[l] # sep
         IN  <<SubSeq(s, 1, i - 1)>> \o split(SubSeq(s, i + 1, Len(s)), sep)
    ELSE <<s>>

RECURSIVE join_str(_, _)
\* [&str]::join(sep)
join_str(parts, sep) ==
    IF parts = <<>> THEN <<>>
    ELSE IF Len(parts) = 1 THEN parts[1]
    ELSE parts[1] \o <<sep>> \o join_str(Tail(parts), sep)

\* anyhow::Result<BuildSource>
ParseOk(source) == [ok |-> TRUE, source |-> source]
ParseErr == [ok |-> FALSE, source |-> Dir(<<>>)]

\* parse_build_src
parse_build_src(s) ==
    LET kind_and_rests == split(s, ":")
        kind == kind_and_rests[1]
        rest == join_str(Tail(kind_and_rests), ":")
    IN  IF kind = Str_github
        THEN LET owner_and_rests == split(rest, "/")
             IN  IF Len(owner_and_rests) # 2 THEN ParseErr
                 ELSE LET repo_and_ref == split(owner_and_rests[2], "@")
                      IN  IF Len(repo_and_ref) # 2 THEN ParseErr
                          ELSE ParseOk(GitHub(owner_and_rests[1], repo_and_ref[1],
                                              repo_and_ref[2]))
        ELSE IF kind = Str_path THEN ParseOk(Dir(rest))
        ELSE ParseErr

\* the characters of the specs: a letter and the three separators
SpecChars == {"a", "/", "@", ":"}

\* the command line values: a kind, with or without its colon, and a text
BuildSrcSpecs ==
    { k \o t : k \in {Str_github \o <<":">>, Str_path \o <<":">>, <<"g", "i", "t", ":">>, <<>>},
               t \in SeqsUpTo(SpecChars, MaxSpecLen) }

InitParse ==
    /\ WorkspaceCreated
    /\ env = <<>>
    /\ save_temps = FALSE
    /\ NoMain
    /\ PATH = <<>>
    /\ arg \in BuildSrcSpecs
    /\ ret = <<>>

Parse ==
    /\ ret = <<>>
    /\ ret' = <<parse_build_src(arg)>>
    /\ UNCHANGED <<buildVars, arg, mainVars>>

SpecParse == InitParse /\ [][Parse]_vars

\* how often the character ch occurs in s
C21_Count(s, ch) == Cardinality({i \in 1..Len(s) : s[i] = ch})

\* s starts with the characters of pre
C21_StartsWith(s, pre) == Len(pre) <= Len(s) /\ SubSeq(s, 1, Len(pre)) = pre

\* s without its first n characters
C21_Drop(s, n) == SubSeq(s, n + 1, Len(s))

\* C21 (build-source parsing): "github:" o "/" r "@" f with o, r, f free of
\* '/', '@' and ':' parses to GitHub{o, r, f}; "path:" p parses to Dir{p};
\* any other kind is an error, and so is a github spec whose text does not
\* hold exactly one '/' and exactly one '@'.
C21_ParseBuildSrc ==
    ret # <<>> =>
       LET r == ret[1]
           g == C21_Drop(arg, 7)
           isGithub == C21_StartsWith(arg, Str_github \o <<":">>) \/ arg = Str_github
           isPath == C21_StartsWith(arg, Str_path \o <<":">>) \/ arg = Str_path
       IN  /\ \A o, rp, f \in SeqsUpTo({"a"}, MaxSpecLen) :
                 arg = Str_github \o <<":">> \o o \o <<"/">> \o rp \o <<"@">> \o f
                    => r = ParseOk(GitHub(o, rp, f))
           /\ C21_StartsWith(arg, Str_path \o <<":">>) =>
                 r = ParseOk(Dir(C21_Drop(arg, 5)))
           /\ (~isGithub /\ ~isPath) => ~r.ok
           /\ (isGithub /\ ~(C21_Count(g, "/") = 1 /\ C21_Count(g, "@") = 1)) => ~r.ok

\* C22 (workspace directories): once Workspace::create has returned Ok, the
\* build, downloads, cache and tmp directories exist, and no later step of the
\* run (the build and its stub directory, the temporary files, the link, the
\* drop of the Workspace) removes one of them.
C22_WorkspaceDirsKept ==
    (mlog # <<>> /\ mlog[1].stage = "create" /\ mlog[1].ok) =>
        \A i \in DOMAIN WorkspaceDirs : Exists(WorkspaceDirs[i])

\* a run whose stub directory and temporary files were made and deleted again
C22_Witness ==
    /\ mlog # <<>> /\ mlog[1].stage = "create" /\ mlog[1].ok
    /\ workspace_dropped
    /\ ~save_temps
    /\ mpc = "done"
    /\ ntemp >= 3
    /\ \A p \in DOMAIN fs : fs[p].kind = "workspace"

\* C23 (cache hit only after a successful install): a call returns
\* cached = true only for an install directory that a make install which
\* exited with status zero has written; what a failed or interrupted
\* make install left there is not reported as a cache hit.
C23_HitOnlyAfterSuccessfulInstall ==
    (pc = "idle" /\ last # <<>> /\ last[1].res.ok /\ last[1].res.cached)
       => fs[last[1].res.install_dir].state = "complete"

\* C24 (exclusion by root-relative path): a file whose name ends in .gem and
\* whose path relative to the runtime root has no directory named cache is
\* mapped, wherever the runtime root lies, also below the cache directory of
\* the workspace.
C24_GemOutsideCacheKept ==
    ret # <<>> =>
        \A f \in arg.files :
           ( /\ EndsWithDotGem(f[Len(f)])
             /\ \A k \in 1..(Len(f) - 1) : f[k] # "cache" )
           => \E i \in 1..Len(ret[1]) :
                 ret[1][i] = << <<"@ruby_root">> \o f, arg.root \o f >>

----------------------------------------------------------------------------
(* the built-in mappings through mkfs: builtin_map_paths, then expand_map_dir *)
(* on each mapping                                                            *)

\* the guest roots: build_cruby's prefix, and a relative one
GuestRoots == {<<"/", "embd-root", "ruby">>, <<"ruby">>}

InitBuiltinExpand ==
    /\ WorkspaceCreated
    /\ env = <<>>
    /\ save_temps = FALSE
    /\ NoMain
    /\ PATH = <<>>
    /\ arg \in [root : RubyRoots, files : SubsetsUpTo(RelFiles, MaxFiles),
                guest : GuestRoots]
    /\ ret = <<>>

\* main's call of builtin_map_paths
BuiltinMapPaths ==
    /\ ret = <<>>
    /\ ret' = <<builtin_map_paths(arg.root, {arg.root \o f : f \in arg.files})>>
    /\ UNCHANGED <<buildVars, arg, mainVars>>

\* mkfs: expand_map_dir over the mappings
MkfsExpand ==
    /\ Len(ret) = 1
    /\ ret' = Append(ret, [i \in 1..Len(ret[1]) |->
                              expand_map_dir(ret[1][i], arg.root, arg.guest)])
    /\ UNCHANGED <<buildVars, arg, mainVars>>

SpecBuiltinExpand == InitBuiltinExpand /\ [][BuiltinMapPaths \/ MkfsExpand]_vars

\* C25 (built-in round trip): the expansion of a built-in mapping of file f
\* with the runtime root as host root and guest root G is (G joined with the
\* path of f relative to the runtime root, f): the host path is not rewritten.
C25_BuiltinRoundTrip ==
    Len(ret) = 2 =>
       /\ Len(ret[2]) = Len(ret[1])
       /\ \A i \in 1..Len(ret[1]) :
             LET f == ret[1][i][2]
                 rel == SubSeq(f, Len(arg.root) + 1, Len(f))
             IN  /\ SubSeq(f, 1, Len(arg.root)) = arg.root
                 /\ ret[2][i] = <<arg.guest \o rel, f>>

\* two files of a runtime root below the workspace's cache directory, expanded
\* for the guest root of build_cruby
C25_Witness ==
    /\ Len(ret) = 2
    /\ Len(ret[2]) = 2
    /\ arg.guest = <<"/", "embd-root", "ruby">>
    /\ arg.root = <<"/", "ws", "cache", "ruby-0a", "embd-root", "ruby">>
    /\ \E i \in 1..2 : ret[2][i] = << <<"/", "embd-root", "ruby", "lib", "a.rb">>,
                                      arg.root \o <<"lib", "a.rb">> >>

----------------------------------------------------------------------------
\* the linker of the run, while it runs
C26_RunningLinks == {i \in C16_Links : cmds[i].status = "running"}

\* the files on the command line of the linker cmds[i]
C26_LinkFiles(i) ==
    {cmds[i].objects[k] : k \in 1..Len(cmds[i].objects)}
        \cup {cmds[i].libs[k] : k \in 1..Len(cmds[i].libs)}

\* C26 (temporaries outlive their tool): while the linker runs, and in the
\* state its exit leaves, every temporary object file and the archive file on
\* its command line is on disk as Workspace::tempfile wrote it, with and
\* without save_temps; while the make install child runs, the stub directory
\* in its PATH is on disk.
C26_TemporariesOutliveTool ==
    /\ [](/\ \A i \in C26_RunningLinks :
               /\ Len(cmds[i].objects) = Len(raw_objects)
               /\ \A k \in 1..Len(cmds[i].objects) :
                     /\ Exists(cmds[i].objects[k])
                     /\ fs[cmds[i].objects[k]] = TempfileEntry(raw_objects[k])
               /\ \A k \in 1..Len(cmds[i].libs) :
                     /\ Exists(cmds[i].libs[k])
                     /\ fs[cmds[i].libs[k]] = TempfileEntry("libwasi_vfs.a")
          /\ \A c \in children :
               c.cmd = "make" =>
                  /\ Exists(c.stub)
                  /\ fs[c.stub] = StubDirEntry
                  /\ c.path[1][1] = c.stub)
    /\ [][\A i \in C26_RunningLinks :
             \A p \in C26_LinkFiles(i) : p \in DOMAIN fs' /\ fs'[p] = fs[p]]_vars

\* the linker runs on two objects and the archive in a run with save_temps,
\* whose make install has left its stub directory
C26_Witness ==
    /\ save_temps
    /\ C20_Stubs # {}
    /\ children = {}
    /\ \E i \in C26_RunningLinks :
          /\ Len(cmds[i].objects) = 2
          /\ Len(cmds[i].libs) = 1
          /\ C26_LinkFiles(i) \subseteq DOMAIN fs

====
